---- MODULE Spec2Model ----
(***************************************************************************)
(* A model of cognito-srp: the modular arithmetic of src/src/bigIntUtils.ts *)
(* (toZn, eGcd, modInv, modPow) and the native-bigint CognitoSRP class of   *)
(* src/src/index.ts (lines 279-495): calculateSRPAValue,                    *)
(* calculatePasswordClaimSignature, calculateU, calculateS, getPaddedHex    *)
(* and the hex/byte helpers.                                                *)
(*                                                                          *)
(* A JavaScript call either returns a value or throws.  Every operator that *)
(* models a function returns a record whose field kind is "ok" or the name  *)
(* of the error thrown; a caller passes a callee's error on unchanged, as   *)
(* an uncaught exception does.                                              *)
(***************************************************************************)
EXTENDS Integers, Sequences, FiniteSets, TLC

VARIABLES
    N,          \* CognitoSRP.N, the group modulus (index.ts:297)
    g,          \* CognitoSRP.g, the generator (index.ts:298)
    k,          \* CognitoSRP.k, the multiplier H(pad(N) || pad(g)) (index.ts:299-303)
    a,          \* CognitoSRP.a: << >> while undefined, <<v>> once assigned (index.ts:304)
    A,          \* CognitoSRP.A: << >> while undefined, <<v>> once assigned (index.ts:305)
    timestamp,  \* CognitoSRP.timestamp: << >> while undefined (index.ts:309)
    now,        \* the wall clock read by new Date(), in seconds (index.ts:479)
    args,       \* the arguments of a call of a pure function
    ret         \* what the last call returned or threw

vars == <<N, g, k, a, A, timestamp, now, args, ret>>

(***************************************************************************)
(* Bounds of the model.                                                     *)
(***************************************************************************)
MaxBase == 8         \* pure arithmetic: bases and eGcd operands in -MaxBase..MaxBase
MaxExp == 6          \* pure arithmetic: exponents in -MaxExp..MaxExp
MaxMod == 9          \* pure arithmetic: moduli in -1..MaxMod
DigestMod == 8       \* the stand-in digest is one byte in 0..DigestMod-1
MaxRandomByte == 2   \* the random bytes that make a are in 0..MaxRandomByte
MaxClock == 1        \* the clock runs from 0 to MaxClock
MaxHexLen == 2       \* SRP_B strings have at most MaxHexLen characters
MaxAnyModulus == 8   \* arbitrary group moduli are in 2..MaxAnyModulus
MaxPadValue == 4200  \* getPaddedHex: integers in -MaxPadValue..MaxPadValue

(***************************************************************************)
(* bigint arithmetic as JavaScript defines it: / truncates towards zero and *)
(* % takes the sign of the dividend.                                        *)
(***************************************************************************)
Abs(i) == IF i < 0 THEN -i ELSE i

JsDiv(i, j) ==
    LET q == Abs(i) \div Abs(j)
    IN  IF (i < 0) = (j < 0) THEN q ELSE -q

JsRem(i, j) == i - j * JsDiv(i, j)

Ok(v) == [kind |-> "ok", val |-> v]

Throw(e) == [kind |-> e]

(***************************************************************************)
(* bigIntUtils.ts                                                           *)
(***************************************************************************)
toZn(i, n) ==
    IF n < 1
    THEN Throw("RangeError")
    ELSE LET aZn == JsRem(i, n)
         IN  Ok(IF aZn < 0 THEN aZn + n ELSE aZn)

\* The while loop of eGcd, from the values its variables hold when the
\* condition is tested: one unfolding is one iteration.  steps counts the
\* iterations made so far.
eGcdLoop[ea \in Int, eb \in Int, x \in Int, y \in Int, u \in Int, v \in Int, steps \in Nat] ==
    IF ea = 0
    THEN [kind |-> "ok", g |-> eb, x |-> x, y |-> y, steps |-> steps]
    ELSE LET q == JsDiv(eb, ea)
             r == JsRem(eb, ea)
             m == x - u * q
             n == y - v * q
         IN  eGcdLoop[r, ea, u, v, m, n, steps + 1]

eGcdSwapped(ea, eb) ==
    IF ea < 1 \/ eb < 1
    THEN Throw("RangeError")
    ELSE eGcdLoop[ea, eb, 1, 0, 0, 1, 0]

eGcd(ea, eb) ==
    IF ea < 1 \/ eb < 1
    THEN Throw("RangeError")
    ELSE eGcdLoop[ea, eb, 0, 1, 1, 0, 0]

modInvRaw(i, n) ==
    LET z == toZn(i, n)
    IN  IF z.kind # "ok" THEN z
        ELSE LET egcd == eGcd(z.val, n)
             IN  IF egcd.kind # "ok" THEN Throw(egcd.kind)
                 ELSE IF egcd.g # 1 THEN Throw("RangeError")
                 ELSE Ok(egcd.x)

modInv(i, n) ==
    LET z == toZn(i, n)
    IN  IF z.kind # "ok" THEN z
        ELSE LET egcd == eGcd(z.val, n)
             IN  IF egcd.kind # "ok" THEN Throw(egcd.kind)
                 ELSE IF egcd.g # 1 THEN Throw("RangeError")
                 ELSE toZn(egcd.x, n)

\* The while loop of modPow (square and multiply, lowest bit first), from
\* the values its variables hold when the condition is tested.
modPowLoop[r \in Int, x \in Int, y \in Int, m \in Int] ==
    IF y > 0
    THEN modPowLoop[IF JsRem(y, 2) = 1 THEN JsRem(r * x, m) ELSE r,
                    JsRem(x * x, m), JsDiv(y, 2), m]
    ELSE r

\* modPow without the reduction of x into [0, m) of line 90.
modPowNoReduce(x, y, m) ==
    IF m < 1 THEN Throw("RangeError")
    ELSE IF m = 1 THEN Ok(0)
    ELSE IF y < 0
         THEN modInv(modPowLoop[1, x, -y, m], m)
         ELSE Ok(modPowLoop[1, x, y, m])

RECURSIVE modPow(_, _, _)
modPow(x, y, m) ==
    IF m < 1 THEN Throw("RangeError")
    ELSE IF m = 1 THEN Ok(0)
    ELSE LET xz == toZn(x, m).val
         IN  IF y < 0
             THEN modInv(modPow(xz, IF y >= 0 THEN y ELSE -y, m).val, m)
             ELSE Ok(modPowLoop[1, xz, y, m])

(***************************************************************************)
(* Strings are sequences of one-character strings.  toString(16) writes     *)
(* lower case and BigInt and parseInt read either case, so the model keeps  *)
(* one case only.                                                           *)
(***************************************************************************)
HexDigits == <<"0", "1", "2", "3", "4", "5", "6", "7",
               "8", "9", "a", "b", "c", "d", "e", "f">>

IsHexDigit(c) == \E i \in 1..16 : HexDigits[i] = c

HexVal(c) == (CHOOSE i \in 1..16 : HexDigits[i] = c) - 1

\* bigint.toString(16): the digits of the magnitude, after a "-" when negative.
RECURSIVE NatToHex(_)
NatToHex(n) ==
    IF n < 16 THEN <<HexDigits[n + 1]>>
    ELSE Append(NatToHex(n \div 16), HexDigits[(n % 16) + 1])

toString16(i) == IF i < 0 THEN <<"-">> \o NatToHex(-i) ELSE NatToHex(i)

RECURSIVE HexToNat(_)
HexToNat(s) ==
    IF s = << >> THEN 0
    ELSE 16 * HexToNat(SubSeq(s, 1, Len(s) - 1)) + HexVal(s[Len(s)])

\* BigInt(`0x${s}`): a SyntaxError unless s is one or more hex digits.
BigIntFromHex(s) ==
    IF s = << >> \/ \E i \in 1..Len(s) : ~IsHexDigit(s[i])
    THEN Throw("SyntaxError")
    ELSE Ok(HexToNat(s))

\* parseInt(c, 16) of one character: NaN for a character that is no hex digit.
\* (~NaN & 0xf) is 15, (~d & 0xf) is 15 - d.
InvertNibble(c) == IF IsHexDigit(c) THEN HexDigits[(15 - HexVal(c)) + 1] ELSE "f"

StartsWithFF8(s) == Len(s) >= 3 /\ s[1] = "f" /\ s[2] = "f" /\ s[3] = "8"

\* getPaddedHex without the "00" prefix of line 448.
getPaddedHexNoPrefix(bigInt) ==
    LET hex0 == toString16(bigInt)
        hex1 == IF Len(hex0) % 2 # 0 THEN <<"0">> \o hex0 ELSE hex0
    IN  IF bigInt < 0
        THEN LET invertedHex == [i \in 1..Len(hex1) |-> InvertNibble(hex1[i])]
                 hex3 == toString16(HexToNat(invertedHex) + 1)
             IN  IF StartsWithFF8(hex3) THEN SubSeq(hex3, 3, Len(hex3)) ELSE hex3
        ELSE hex1

getPaddedHex(bigInt) ==
    LET hex0 == toString16(bigInt)
        hex1 == IF Len(hex0) % 2 # 0 THEN <<"0">> \o hex0 ELSE hex0
        hex2 == IF hex1[1] \in {"8", "9", "a", "b", "c", "d", "e", "f"}
                THEN <<"0", "0">> \o hex1 ELSE hex1
    IN  IF bigInt < 0
        THEN LET invertedHex == [i \in 1..Len(hex2) |-> InvertNibble(hex2[i])]
                 hex3 == toString16(HexToNat(invertedHex) + 1)
             IN  IF StartsWithFF8(hex3) THEN SubSeq(hex3, 3, Len(hex3)) ELSE hex3
        ELSE hex2

(***************************************************************************)
(* Bytes, hashes and text.  Text is held as its UTF-8 bytes.                *)
(***************************************************************************)
\* parseInt(pair, 16) stored into a Uint8Array: the leading hex digits of the
\* pair, and 0 (from NaN) when it has none.
ParseIntPair(c1, c2) ==
    IF ~IsHexDigit(c1) THEN 0
    ELSE IF ~IsHexDigit(c2) THEN HexVal(c1)
    ELSE 16 * HexVal(c1) + HexVal(c2)

getBytesFromHex(encoded) ==
    IF Len(encoded) < 2
    THEN Throw("Error: Invalid Hex String.")
    ELSE Ok([i \in 1..(Len(encoded) \div 2) |->
                ParseIntPair(encoded[2 * i - 1], encoded[2 * i])])

RECURSIVE getHexFromBytes(_)
getHexFromBytes(bytes) ==
    IF bytes = << >> THEN << >>
    ELSE <<HexDigits[(bytes[1] \div 16) + 1], HexDigits[(bytes[1] % 16) + 1]>>
         \o getHexFromBytes(Tail(bytes))

RECURSIVE WeightedSum(_)
WeightedSum(bytes) ==
    IF bytes = << >> THEN 0
    ELSE Len(bytes) * bytes[Len(bytes)] + WeightedSum(SubSeq(bytes, 1, Len(bytes) - 1))

\* createHash(data): SHA-256 is an external primitive.  Its stand-in is a
\* deterministic digest of one byte below DigestMod, so that the integers read
\* from a digest (k, U, x) stay small and U = 0 can happen.
createHash(data) == <<(WeightedSum(data) + Len(data)) % DigestMod>>

\* createHash(data, secret): the keyed hash, kept symbolic (injective in both).
createHashKeyed(data, secret) == [hmac |-> "sha256", key |-> secret, data |-> data]

\* Uint8Array.slice(0, 16) of a keyed hash.
Slice16(h) == [slice |-> <<0, 16>>, of |-> h]

\* btoa of the bytes of a keyed hash.
Btoa(h) == [btoa |-> h]

\* urlB64ToUint8Array: atob is an external primitive.  Two SECRET_BLOCK
\* strings stand for all: "c2I", which decodes to the bytes of "sb", and "!",
\* on which atob throws.
urlB64ToUint8Array(base64String) ==
    IF base64String = "c2I" THEN Ok(<<115, 98>>) ELSE Throw("InvalidCharacterError")

\* createTimestamp: the clock's second, rendered as text (the rendering
\* "Dow Mon D HH:MM:SS UTC YYYY" names the second and nothing else).
createTimestamp(clock) == <<clock>>

\* TextEncoder.encode of text held as bytes.
encode(text) == text

userPoolName == <<80>>

(***************************************************************************)
(* CognitoSRP (native bigint)                                               *)
(***************************************************************************)
\* The field initializer of k.
InitK(n, gen) ==
    BigIntFromHex(getHexFromBytes(createHash(
        getBytesFromHex(getPaddedHex(n) \o getPaddedHex(gen)).val))).val

calculateU(B) ==
    IF A = << >>
    THEN Throw("TypeError")   \* getPaddedHex(undefined): undefined.toString
    ELSE LET hexAB == getPaddedHex(A[1]) \o getPaddedHex(B)
             hashHex == getHexFromBytes(createHash(getBytesFromHex(hexAB).val))
             U == BigIntFromHex(hashHex).val
         IN  IF U = 0 THEN Throw("Error: U cannot be zero.") ELSE Ok(U)

\* calculateS with the truncating remainder in place of modPow's reduction.
calculateSTruncating(x, B, U) ==
    LET t0 == modPow(g, x, N).val * k
        t1 == B - t0
        t2 == a[1] + U * x
    IN  Ok(modPowLoop[1, JsRem(t1, N), t2, N])

calculateS(x, B, U) ==
    LET t0 == modPow(g, x, N).val * k
        t1 == B - t0
        t2 == a[1] + U * x
    IN  modPow(t1, t2, N)

\* The test of line 362 with === 0n applied to B instead of B % N.
InvalidServerPublicKeyZeroOnly(serverBValue) == serverBValue = 0

\* The test of line 362: serverBValue % this.N === 0n.
InvalidServerPublicKey(serverBValue) == JsRem(serverBValue, N) = 0

\* What a call of calculatePasswordClaimSignature that stops early reports:
\* the error thrown and the values computed before it.
Stopped(kind, B, U, x, S) ==
    [kind |-> kind, B |-> B, U |-> U, x |-> x, S |-> S,
     message |-> << >>, val |-> << >>]

\* calculatePasswordClaimSignature after its first statement; ts is the
\* timestamp that statement stored.
PasswordClaim(ts, password, userId, salt, secretBlock, srpB) ==
    LET pB == BigIntFromHex(srpB)
    IN  IF pB.kind # "ok" THEN Stopped(pB.kind, << >>, << >>, << >>, << >>)
        ELSE LET serverBValue == pB.val
        IN  IF InvalidServerPublicKey(serverBValue)
            THEN Stopped("Error: Invalid server public key",
                         <<serverBValue>>, << >>, << >>, << >>)
        ELSE LET rU == calculateU(serverBValue)
        IN  IF rU.kind # "ok"
            THEN Stopped(rU.kind, <<serverBValue>>, << >>, << >>, << >>)
        ELSE LET U == rU.val
                 pSalt == BigIntFromHex(salt)
        IN  IF pSalt.kind # "ok"
            THEN Stopped(pSalt.kind, <<serverBValue>>, <<U>>, << >>, << >>)
        ELSE LET serverSalt == pSalt.val
                 userPasswordHash ==
                     createHash(userPoolName \o userId \o <<58>> \o password)
                 saltedUserPassHash ==
                     createHash(getBytesFromHex(
                         getPaddedHex(serverSalt)
                             \o getHexFromBytes(userPasswordHash)).val)
                 x == BigIntFromHex(getHexFromBytes(saltedUserPassHash)).val
                 rS == calculateS(x, serverBValue, U)
        IN  IF rS.kind # "ok"
            THEN Stopped(rS.kind, <<serverBValue>>, <<U>>, <<x>>, << >>)
        ELSE LET S == rS.val
                 block == urlB64ToUint8Array(secretBlock)
        IN  IF block.kind # "ok"
            THEN Stopped(block.kind, <<serverBValue>>, <<U>>, <<x>>, <<S>>)
        ELSE LET concatenatedArray ==
                     encode(userPoolName) \o encode(userId) \o block.val \o encode(ts)
                 context == <<67, 97, 108, 100, 101, 114, 97, 32, 68, 101, 114,
                              105, 118, 101, 100, 32, 75, 101, 121>>
                 spacer == <<1>>
                 info == context \o spacer
                 hmacSecret ==
                     createHashKeyed(getBytesFromHex(getPaddedHex(S)).val,
                                     getBytesFromHex(getPaddedHex(U)).val)
                 awsHashHmac == createHashKeyed(info, hmacSecret)
                 awsHash == createHashKeyed(concatenatedArray, Slice16(awsHashHmac))
        IN  [kind |-> "ok", B |-> <<serverBValue>>, U |-> <<U>>, x |-> <<x>>,
             S |-> <<S>>, message |-> concatenatedArray, val |-> Btoa(awsHash)]

(***************************************************************************)
(* The pure functions, called on arguments drawn from bounded sets.         *)
(***************************************************************************)
ArithArgs ==
    { <<x, y, m>> : x \in -MaxBase..MaxBase, y \in -MaxExp..MaxExp, m \in -1..MaxMod }

PadArgs == { <<v>> : v \in -MaxPadValue..MaxPadValue }

NoCall == [op |-> "none"]

CallToZn ==
    /\ ret' = [op |-> "toZn", in |-> args, out |-> toZn(args[1], args[3])]
    /\ UNCHANGED <<N, g, k, a, A, timestamp, now, args>>

CallEGcd ==
    /\ ret' = [op |-> "eGcd", in |-> args, out |-> eGcd(args[1], args[3])]
    /\ UNCHANGED <<N, g, k, a, A, timestamp, now, args>>

CallModInv ==
    /\ ret' = [op |-> "modInv", in |-> args, out |-> modInv(args[1], args[3])]
    /\ UNCHANGED <<N, g, k, a, A, timestamp, now, args>>

CallModPow ==
    /\ ret' = [op |-> "modPow", in |-> args, out |-> modPow(args[1], args[2], args[3])]
    /\ UNCHANGED <<N, g, k, a, A, timestamp, now, args>>

CallGetPaddedHex ==
    /\ ret' = [op |-> "getPaddedHex", in |-> args, out |-> getPaddedHex(args[1])]
    /\ UNCHANGED <<N, g, k, a, A, timestamp, now, args>>

(***************************************************************************)
(* One CognitoSRP instance and its callers.                                 *)
(***************************************************************************)
\* The primes that stand for the 3072-bit prime INIT_N.
GroupModuli == {7, 17}

AnyModuli == 2..MaxAnyModulus

RandomBuffers == { <<b>> : b \in 0..MaxRandomByte }

RECURSIVE StringsOver(_, _)
StringsOver(chars, len) ==
    IF len = 0 THEN {<< >>}
    ELSE LET shorter == StringsOver(chars, len - 1)
         IN  shorter \cup { Append(t, c) : t \in shorter, c \in chars }

\* Challenge parameters: hex digits and "z", which is no hex digit.
SrpBStrings == StringsOver({"0", "f", "z"}, MaxHexLen)

\* An odd number of hex digits, an even number, and a string that is no hex.
SaltStrings == {<<"9">>, <<"0", "9">>, <<"z">>}

SecretBlocks == {"c2I", "!"}

Passwords == {<<112>>}

UserIds == {<<117>>}

\* The state new CognitoSRP(userPoolName) leaves, with modulus n.
Constructed(n) ==
    /\ N = n
    /\ g = 2
    /\ k = InitK(n, 2)
    /\ a = << >>
    /\ A = << >>
    /\ timestamp = << >>

Init ==
    /\ \E n \in GroupModuli : Constructed(n)
    /\ now = 0
    /\ args = << >>
    /\ ret = NoCall

InitAnyGroup ==
    /\ \E n \in AnyModuli : Constructed(n)
    /\ now = 0
    /\ args = << >>
    /\ ret = NoCall

InitArith ==
    /\ Constructed(7)
    /\ now = 0
    /\ args \in ArithArgs
    /\ ret = NoCall

InitPad ==
    /\ Constructed(7)
    /\ now = 0
    /\ args \in PadArgs
    /\ ret = NoCall

Tick ==
    /\ now < MaxClock
    /\ now' = now + 1
    /\ UNCHANGED <<N, g, k, a, A, timestamp, args, ret>>

calculateSRPAValue ==
    \E buffer \in RandomBuffers :
        LET na == BigIntFromHex(getHexFromBytes(buffer)).val
            nA == modPow(g, na, N).val
        IN  /\ a' = <<na>>
            /\ A' = <<nA>>
            /\ ret' = [op |-> "calculateSRPAValue", at |-> now,
                       kind |-> "ok", val |-> toString16(nA)]
            /\ UNCHANGED <<N, g, k, timestamp, now, args>>

\* calculatePasswordClaimSignature without line 359: the timestamp is the one
\* made when the instance was constructed, as in the callback variant.
calculatePasswordClaimSignatureStale ==
    \E password \in Passwords, userId \in UserIds, salt \in SaltStrings,
       secretBlock \in SecretBlocks, srpB \in SrpBStrings :
        LET ts == createTimestamp(0)
            out == PasswordClaim(ts, password, userId, salt, secretBlock, srpB)
        IN  /\ timestamp' = ts
            /\ ret' = [op |-> "calculatePasswordClaimSignature", at |-> now,
                       SRP_B |-> srpB, SALT |-> salt, SECRET_BLOCK |-> secretBlock,
                       USER_ID_FOR_SRP |-> userId, password |-> password,
                       out |-> out]
            /\ UNCHANGED <<N, g, k, a, A, now, args>>

\* calculatePasswordClaimSignature that first regenerates the ephemeral pair,
\* as if the instance reset a and A for each challenge.
calculatePasswordClaimSignatureRegenerating ==
    \E password \in Passwords, userId \in UserIds, salt \in SaltStrings,
       secretBlock \in SecretBlocks, srpB \in SrpBStrings :
        LET ts == createTimestamp(now)
            out == PasswordClaim(ts, password, userId, salt, secretBlock, srpB)
        IN  /\ timestamp' = ts
            /\ a' = <<0>>
            /\ A' = <<1>>
            /\ ret' = [op |-> "calculatePasswordClaimSignature", at |-> now,
                       SRP_B |-> srpB, SALT |-> salt, SECRET_BLOCK |-> secretBlock,
                       USER_ID_FOR_SRP |-> userId, password |-> password,
                       out |-> out]
            /\ UNCHANGED <<N, g, k, now, args>>

calculatePasswordClaimSignature ==
    \E password \in Passwords, userId \in UserIds, salt \in SaltStrings,
       secretBlock \in SecretBlocks, srpB \in SrpBStrings :
        LET ts == createTimestamp(now)
            out == PasswordClaim(ts, password, userId, salt, secretBlock, srpB)
        IN  /\ timestamp' = ts
            /\ ret' = [op |-> "calculatePasswordClaimSignature", at |-> now,
                       SRP_B |-> srpB, SALT |-> salt, SECRET_BLOCK |-> secretBlock,
                       USER_ID_FOR_SRP |-> userId, password |-> password,
                       out |-> out]
            /\ UNCHANGED <<N, g, k, a, A, now, args>>

Next == Tick \/ calculateSRPAValue \/ calculatePasswordClaimSignature

NextArith == CallToZn \/ CallEGcd \/ CallModInv \/ CallModPow

NextPad == CallGetPaddedHex

Spec == Init /\ [][Next]_vars

SpecAnyGroup == InitAnyGroup /\ [][Next]_vars

SpecArith == InitArith /\ [][NextArith]_vars

SpecPad == InitPad /\ [][NextPad]_vars

(***************************************************************************)
(* What the properties are stated with: arithmetic by its definition, not   *)
(* by the program's algorithms.                                             *)
(***************************************************************************)
\* The residue of i modulo m in 0..m-1, for m >= 1: the % of TLA+, which is
\* never negative.
FloorMod(i, m) == i % m

\* b^e mod m by e multiplications, for e >= 0 and m >= 1.
RefPowMod[b \in Int, e \in Nat, m \in Nat] ==
    IF e = 0 THEN FloorMod(1, m) ELSE FloorMod(b * RefPowMod[b, e - 1, m], m)

Divides(d, i) == i % d = 0

Max(i, j) == IF i >= j THEN i ELSE j

\* The greatest common divisor of i and j, not both 0.
RefGcd(i, j) ==
    CHOOSE d \in 1..Max(Abs(i), Abs(j)) :
        /\ Divides(d, i) /\ Divides(d, j)
        /\ \A e \in 1..Max(Abs(i), Abs(j)) : (Divides(e, i) /\ Divides(e, j)) => e <= d

RECURSIVE Pow16(_)
Pow16(n) == IF n = 0 THEN 1 ELSE 16 * Pow16(n - 1)

\* A string of hex digits read as a big-endian two's-complement signed
\* byte string.
DecodeSigned(hex) ==
    IF HexVal(hex[1]) >= 8 THEN HexToNat(hex) - Pow16(Len(hex)) ELSE HexToNat(hex)

\* A string that is not the hex of whole bytes: empty, an odd number of
\* characters, or a character that is no hex digit.
Malformed(s) ==
    \/ s = << >>
    \/ Len(s) % 2 = 1
    \/ \E i \in 1..Len(s) : ~IsHexDigit(s[i])

IsSignatureCall == ret.op = "calculatePasswordClaimSignature"

ProtocolAbortErrors == {"Error: Invalid server public key", "Error: U cannot be zero."}

\* The errors that name malformed input: getBytesFromHex's own, and BigInt's
\* SyntaxError counted with it.
InputFormatErrors == {"Error: Invalid Hex String.", "SyntaxError"}

(***************************************************************************)
(* The claims.                                                              *)
(***************************************************************************)
\* C1: in calculatePasswordClaimSignature, whenever SRP_B parses to a B with
\* B mod N = 0 (zero or any multiple of N), the call throws "Invalid server
\* public key", neither U nor S is computed and no signature is returned.
C1_ZeroServerValueAborts ==
    (/\ IsSignatureCall
     /\ \A i \in 1..Len(ret.SRP_B) : IsHexDigit(ret.SRP_B[i])
     /\ ret.SRP_B # << >>
     /\ FloorMod(HexToNat(ret.SRP_B), N) = 0)
    => /\ ret.out.kind = "Error: Invalid server public key"
       /\ ret.out.kind \in ProtocolAbortErrors
       /\ ret.out.U = << >>
       /\ ret.out.S = << >>
       /\ ret.out.val = << >>

\* C1 witness: a challenged instance was given a non-zero multiple of N and
\* the call aborted.
C1_Witness ==
    /\ IsSignatureCall
    /\ A # << >>
    /\ ret.out.B # << >>
    /\ ret.out.B[1] > 0
    /\ FloorMod(ret.out.B[1], N) = 0
    /\ ret.out.kind = "Error: Invalid server public key"

C3_ModPowIsPowerMod ==
    (ret.op = "modPow" /\ ret.in[2] >= 0 /\ ret.in[3] >= 1)
    => /\ ret.out.kind = "ok"
       /\ ret.out.val = RefPowMod[ret.in[1], ret.in[2], ret.in[3]]
       /\ ret.out.val \in 0..(ret.in[3] - 1)
       /\ (ret.in[3] = 1 => ret.out.val = 0)
       /\ (ret.in[2] = 0 /\ ret.in[3] > 1 => ret.out.val = 1)

\* C3 witness: a negative base raised to a power of at least 2 gave a
\* residue that is not 0.
C3_Witness ==
    /\ ret.op = "modPow"
    /\ ret.in[1] < 0 /\ ret.in[2] >= 2 /\ ret.in[3] > 2
    /\ ret.out.kind = "ok"
    /\ ret.out.val > 0

\* C4: the S that calculateS returns is (B - k * (g^x mod N))^(a + U*x) mod N,
\* in [0, N), also when B - k * (g^x mod N) is negative.
C4_SharedSecret ==
    (IsSignatureCall /\ ret.out.S # << >>)
    => /\ ret.out.S[1] =
              RefPowMod[ret.out.B[1] - k * RefPowMod[g, ret.out.x[1], N],
                        a[1] + ret.out.U[1] * ret.out.x[1], N]
       /\ ret.out.S[1] \in 0..(N - 1)

\* C4 witness: S was computed from a negative B - k * (g^x mod N) that is no
\* multiple of N, with an odd exponent.
C4_Witness ==
    /\ IsSignatureCall
    /\ ret.out.S # << >>
    /\ ret.out.B[1] - k * RefPowMod[g, ret.out.x[1], N] < 0
    /\ (a[1] + ret.out.U[1] * ret.out.x[1]) % 2 = 1
    /\ ret.out.S[1] > 0

\* C5: getPaddedHex(v) has an even number of hex digits and, read as a
\* big-endian two's-complement signed byte string, is v: for negative, zero
\* and positive v.
C5_PaddedHexRoundTrips ==
    ret.op = "getPaddedHex"
    => /\ Len(ret.out) % 2 = 0
       /\ \A i \in 1..Len(ret.out) : IsHexDigit(ret.out[i])
       /\ DecodeSigned(ret.out) = ret.in[1]

\* C5 witness: -128, whose negation starts with ff8 and is stripped to 80.
C5_Witness ==
    /\ ret.op = "getPaddedHex"
    /\ ret.in[1] = -128
    /\ ret.out = <<"8", "0">>

\* C6: a call on a challenged instance whose SRP_B is malformed hex, or whose
\* SALT is malformed hex when the call gets as far as reading it, fails with
\* an input-format error: the string is never parsed into an integer that the
\* call goes on to use.  (An SRP_B such as "0" that the B mod N = 0 test of C1
\* rejects is left to C1.)
C6_MalformedHexRejected ==
    (/\ IsSignatureCall
     /\ A # << >>
     /\ \/ Malformed(ret.SRP_B)
        \/ ret.out.U # << >> /\ Malformed(ret.SALT))
    => \/ ret.out.kind \in InputFormatErrors
       \/ ret.out.kind = "Error: Invalid server public key"

\* C7: for m > 1, e < 0 and gcd(b, m) = 1, modPow(b, e, m) is an r in [0, m)
\* with (r * modPow(b, -e, m)) mod m = 1.
C7_NegativeExponentInverts ==
    (/\ ret.op = "modPow"
     /\ ret.in[3] > 1 /\ ret.in[2] < 0
     /\ RefGcd(ret.in[1], ret.in[3]) = 1)
    => /\ ret.out.kind = "ok"
       /\ ret.out.val \in 0..(ret.in[3] - 1)
       /\ FloorMod(ret.out.val * modPow(ret.in[1], -ret.in[2], ret.in[3]).val,
                   ret.in[3]) = 1

\* C7 witness: a negative base and a negative exponent gave an inverse that
\* is not 1.
C7_Witness ==
    /\ ret.op = "modPow"
    /\ ret.in[1] < 0 /\ ret.in[2] < -1 /\ ret.in[3] > 2
    /\ ret.out.kind = "ok"
    /\ ret.out.val > 1

\* C8: for a >= 1 and b >= 1, eGcd(a, b) ends (after at most a iterations)
\* with g = gcd(a, b) and g = a*x + b*y; for a < 1 or b < 1 it throws a
\* RangeError.
C8_ExtendedGcd ==
    ret.op = "eGcd"
    => IF ret.in[1] >= 1 /\ ret.in[3] >= 1
       THEN /\ ret.out.kind = "ok"
            /\ ret.out.g = RefGcd(ret.in[1], ret.in[3])
            /\ ret.out.g = ret.in[1] * ret.out.x + ret.in[3] * ret.out.y
            /\ ret.out.steps <= ret.in[1]
       ELSE ret.out = Throw("RangeError")

\* C8 witness: operands with a common divisor, neither dividing the other.
C8_Witness ==
    /\ ret.op = "eGcd"
    /\ ret.out.kind = "ok"
    /\ ret.out.g > 1
    /\ ret.out.g < ret.in[1] /\ ret.out.g < ret.in[3]
    /\ ret.out.steps >= 2

\* C9: a call that returns a signature made its timestamp from the clock at
\* the call, signed userPoolName || userId || decode(SECRET_BLOCK) || that
\* timestamp, and leaves that timestamp in the instance.
C9_TimestampSigned ==
    (IsSignatureCall /\ ret.out.kind = "ok")
    => /\ ret.out.message =
              userPoolName \o ret.USER_ID_FOR_SRP
                  \o urlB64ToUint8Array(ret.SECRET_BLOCK).val \o <<ret.at>>
       /\ ret.out.val.btoa.data = ret.out.message
       /\ timestamp = <<ret.at>>

\* C9 witness: a signature returned after the clock has moved on from the
\* instance's construction.
C9_Witness ==
    /\ IsSignatureCall
    /\ ret.out.kind = "ok"
    /\ ret.at > 0
    /\ timestamp = <<ret.at>>

\* C10: a call of calculatePasswordClaimSignature that fails leaves
\* timestamp, a and A unchanged, so that the instance's timestamp stays the
\* one signed into the most recently returned signature.  Stated for a
\* failing call that follows a call that returned a signature.
C10_FailedCallChangesNothing ==
    [][(/\ IsSignatureCall /\ ret.out.kind = "ok" /\ timestamp = <<ret.at>>
        /\ ret'.op = "calculatePasswordClaimSignature"
        /\ ret'.out.kind # "ok")
       => (timestamp' = timestamp /\ a' = a /\ A' = A)]_vars

\* C11: a signature is only produced by a challenged instance.  Every call
\* of calculatePasswordClaimSignature that returns a signature finds a and A
\* stored, and its U and S are the ones calculateU and calculateS give for the
\* stored A and a; a call on an instance that has no a and A yet fails and
\* returns no signature; calculatePasswordClaimSignature never changes a or
\* A, and whenever a or A changes it was calculateSRPAValue that stored them
\* and returned that A.
C11_SignatureOnlyWhenChallenged ==
    /\ []((IsSignatureCall /\ ret.out.kind = "ok")
           => /\ a # << >> /\ A # << >>
              /\ calculateU(ret.out.B[1]) = Ok(ret.out.U[1])
              /\ calculateS(ret.out.x[1], ret.out.B[1], ret.out.U[1])
                     = Ok(ret.out.S[1]))
    /\ []((IsSignatureCall /\ A = << >>)
           => /\ ret.out.kind \notin {"ok"}
              /\ ret.out.val = << >>
              /\ a = << >>)
    /\ [][ret'.op = "calculatePasswordClaimSignature" => (a' = a /\ A' = A)]_vars
    /\ [][(a' # a \/ A' # A)
           => /\ ret'.op = "calculateSRPAValue"
              /\ ret'.kind = "ok"
              /\ a' # << >> /\ A' # << >>
              /\ ret'.val = toString16(A'[1])]_vars

\* C11 witness: an instance whose stored exponent is not 0 and whose stored A
\* is not 1 returned a signature.
C11_Witness ==
    /\ IsSignatureCall
    /\ ret.out.kind = "ok"
    /\ a # << >> /\ a[1] > 0
    /\ A # << >> /\ A[1] > 1
    /\ ret.out.val # << >>

====
